---- MODULE Spec2Model ----
(***************************************************************************)
(* node-run-cmd (src/index.js): run(commands, globalOptions) spawns each   *)
(* command as a child process, wires its streams and completion events to  *)
(* callbacks, and resolves with the exit codes, sequentially or in         *)
(* parallel.                                                               *)
(*                                                                         *)
(* One behaviour of the model is one call of command.run.  An action is    *)
(* one turn of the Node event loop: the synchronous body of runMultiple,   *)
(* or one listener of a child handle, each followed by the promise         *)
(* reactions (microtasks) it queues, which Node drains before the next     *)
(* event is delivered.                                                     *)
(*                                                                         *)
(* The spawn primitive is the environment.  A handle it returns exposes a  *)
(* stdout and a stderr stream, emits 'close' once (the process is live     *)
(* until then) and may emit 'error' once before it; child_process does not *)
(* promise that the two exclude each other.                                *)
(***************************************************************************)
EXTENDS Integers, Sequences, FiniteSets, TLC

\* ------------------------------------------------------------- bounds
MaxCmds == 2      \* longest commands array passed to run
MaxChunks == 2    \* output chunks the children of one batch emit in total

\* ---------------------------------------------------------- constants
SEQUENTIAL == "sequential"
PARALLEL == "parallel"
DEFAULT_VERBOSE == FALSE

\* ------------------------------------------------------ JS values
\* A JS value is a tagged record; typeof follows the language.
Undefined == [t |-> "undefined"]
Null == [t |-> "null"]
Num(n) == [t |-> "number", n |-> n]
Bool(b) == [t |-> "boolean", b |-> b]
Str(s) == [t |-> "string", s |-> s]
Obj(o) == [t |-> "object", o |-> o]
Arr(a) == [t |-> "array", a |-> a]
ErrorObj(n) == [t |-> "error", n |-> n]
Buffer(b) == [t |-> "buffer", b |-> b]

TypeOf(v) == IF v.t \in {"null", "array", "error", "buffer"} THEN "object" ELSE v.t

\* !!v
Truthy(v) ==
  CASE v.t \in {"undefined", "null"} -> FALSE
    [] v.t = "number" -> v.n # 0
    [] v.t = "boolean" -> v.b
    [] v.t = "string" -> v.s # <<>>
    [] OTHER -> TRUE

\* A plain object: a function from its own keys to their values.
EmptyObject == [k \in {} |-> ""]
Has(o, k) == k \in DOMAIN o

\* Object.assign(target, source) for one source; an undefined source is skipped.
Assign(target, source) ==
  IF source.t # "object" THEN target
  ELSE [k \in DOMAIN target \cup DOMAIN source.o |->
          IF k \in DOMAIN source.o THEN source.o[k] ELSE target[k]]

\* ------------------------------------------------------ tokenization
Quote == "\""
Backslash == "\\"
IsSpace(c) == c \in {" ", "\t", "\n"}

\* [^"\s]+ at p: the index after the maximal run.
RECURSIVE RunEnd(_, _)
RunEnd(s, p) ==
  IF p > Len(s) \/ s[p] = Quote \/ IsSpace(s[p]) THEN p ELSE RunEnd(s, p + 1)

\* (?:\\"|[^"])+" from q, some (any = TRUE) or no item consumed so far: the
\* index after the closing quote of the first match in the regex's priority
\* order (escaped quote, then any non-quote character, then close), 0 if none.
RECURSIVE QuotedEnd(_, _, _)
QuotedEnd(s, q, any) ==
  LET esc == IF q + 1 <= Len(s) /\ s[q] = Backslash /\ s[q + 1] = Quote
             THEN QuotedEnd(s, q + 2, TRUE) ELSE 0
      one == IF esc # 0 THEN esc
             ELSE IF q <= Len(s) /\ s[q] # Quote
                  THEN QuotedEnd(s, q + 1, TRUE) ELSE 0
  IN  IF one # 0 THEN one
      ELSE IF any /\ q <= Len(s) /\ s[q] = Quote THEN q + 1 ELSE 0

\* One attempt of the regex at p: the index after the match, 0 if none.
MatchAt(s, p) ==
  IF s[p] = Quote THEN QuotedEnd(s, p + 1, FALSE)
  ELSE IF IsSpace(s[p]) THEN 0
  ELSE RunEnd(s, p)

\* String.prototype.match with the g flag: all matches, left to right
\* (the empty sequence stands for the null that match returns for none).
RECURSIVE match(_, _)
match(s, p) ==
  IF p > Len(s) THEN <<>>
  ELSE LET e == MatchAt(s, p)
       IN  IF e = 0 THEN match(s, p + 1)
           ELSE <<SubSeq(s, p, e - 1)>> \o match(s, e)

\* The mapping function of line 52-54: strip quotes that wrap the piece.
unquote(expr) ==
  IF expr[1] = Quote /\ expr[Len(expr)] = Quote
  THEN SubSeq(expr, 2, Len(expr) - 1) ELSE expr

cmds(command) == LET m == match(command, 1) IN [j \in 1..Len(m) |-> unquote(m[j])]

\* ------------------------------------------------------------ state
VARIABLES
  input,        \* the commands argument of the call (a JS value)
  options,      \* the globalOptions argument of the call (a JS value)
  batch,        \* the promise runMultiple returns: [st, val, reason]
  globalOpts,   \* line 163
  commands,     \* the normalised commands (line 167-179), a sequence of JS values
  resolvedOpts, \* index of a dispatched command -> the options run received
  promise,      \* index of a dispatched command -> the promise run returned
  child,        \* index of a spawned command -> its process handle
  results,      \* the generator's results array (line 192)
  pos,          \* the generator's loop index i (line 193), 0 outside the loop
  values,       \* the values array of Promise.all (line 187)
  chunks,       \* output chunks emitted so far
  calls,        \* index of a dispatched command -> the calls made for it of
                \* a logger, spawn and the callbacks, in order
  timeline,     \* the spawns, the settlements of the commands' promises and
                \* the changes of directory, in order
  processCwd    \* what process.cwd() returns

vars == <<input, options, batch, globalOpts, commands, resolvedOpts, promise,
          child, results, pos, values, chunks, calls, timeline, processCwd>>

\* One entry of calls: cb is the function called ("" for spawn), arg its first
\* argument and flag whether a second argument true was passed.
Call(op, cb, arg, flag) == [op |-> op, cb |-> cb, arg |-> arg, flag |-> flag]

\* One entry of timeline.
Spawned(i) == [ev |-> "spawn", cmd |-> i]
Settled(i) == [ev |-> "settle", cmd |-> i]
Changed == [ev |-> "chdir", cmd |-> 0]

\* Extend a function by one point.
Put(f, i, v) == [j \in DOMAIN f \cup {i} |-> IF j = i THEN v ELSE f[j]]

\* ------------------------------------------------------------- run
spawnOptsAllowedKeys == {"cwd", "env", "stdio", "detached", "uid", "gid", "shell"}

\* Line 42-47 (spawnProcessOptsAll passes the resolved options whole).
spawnProcessOptsAll(o) == o
spawnProcessOpts(o) == [k \in DOMAIN o \cap spawnOptsAllowedKeys |-> o[k]]

verbose(o) == Has(o, "verbose") /\ o.verbose = TRUE
isFunction(o, k) == Has(o, k)

\* The synchronous body of run(options) (line 27-57): the calls it makes, and
\* the handle it creates unless line 51 throws (match returned null, or
\* options.command is no string).
run(o) ==
  LET line == IF Has(o, "command") /\ o.command.t = "string"
              THEN Str(<<"$", " ">> \o o.command.s) ELSE Undefined
      logged == IF verbose(o)
                THEN <<Call("logger", o.logger, line, FALSE)>> ELSE <<>>
      pieces == IF Has(o, "command") /\ o.command.t = "string"
                THEN cmds(o.command.s) ELSE <<>>
  IN  IF pieces = <<>>
      THEN [threw |-> TRUE, calls |-> logged, handle |-> EmptyObject]
      ELSE [threw |-> FALSE,
            calls |-> logged \o <<Call("spawn", "", Str(pieces[1]), FALSE)>>,
            handle |-> [runCMD |-> pieces[1], args |-> Tail(pieces),
                        opts |-> spawnProcessOpts(o),
                        live |-> TRUE, errored |-> FALSE, emitted |-> <<>>,
                        stdout |-> <<>>, stderr |-> <<>>]]

\* A promise: pending, or settled once with a value (resolved) or a reason.
Pending == [st |-> "pending", val |-> Undefined]
Resolved(v) == [st |-> "resolved", val |-> v]
Rejected(e) == [st |-> "rejected", val |-> e]
TypeError == Str(<<"T", "y", "p", "e", "E", "r", "r", "o", "r">>)

\* The promise run returns (line 27): an exception in the executor rejects it
\* (runPromiseSwallow resolves it instead, runPromiseLost drops the exception).
runPromiseSwallow(r) == IF r.threw THEN Resolved(Undefined) ELSE Pending
runPromiseLost(r) == Pending
runPromise(r) == IF r.threw THEN Rejected(TypeError) ELSE Pending

\* Line 88: a close event resolves the command, whatever the code
\* (closeSettleReject is the disabled line 89, which rejected a nonzero code).
closeSettleReject(code) == IF code # 0 THEN Rejected(Num(code)) ELSE Resolved(Num(code))
closeSettle(code) == Resolved(Num(code))

\* Line 97: an error event resolves the command with the error
\* (errorSettleDropped is a listener that forgets to resolve).
errorSettleDropped(e) == Pending
errorSettle(e) == Resolved(e)

\* ---------------------------------------------------- runMultiple
ProcessCwd == "/home"
ConsoleLog == "console.log"

\* Line 155-160 (defaultOptsParallel is a default mode of parallel).
defaultOptsParallel ==
  [cwd |-> processCwd, verbose |-> DEFAULT_VERBOSE, mode |-> PARALLEL, logger |-> ConsoleLog]
defaultOpts ==
  [cwd |-> processCwd, verbose |-> DEFAULT_VERBOSE, mode |-> SEQUENTIAL, logger |-> ConsoleLog]

\* Line 163: Object.assign({}, defaultOpts, options).
mergeGlobal(opts) == Assign(Assign(EmptyObject, Obj(defaultOpts)), opts)

\* Line 184 and 195: Object.assign({}, globalOpts, cmd)
\* (resolveOptsCmdFirst overlays in the wrong order, resolveOptsFreshCwd reads
\* the current directory anew for each command).
resolveOptsCmdFirst(g, cmd) == Assign(Assign(EmptyObject, cmd), Obj(g))
resolveOptsFreshCwd(g, cmd) ==
  Assign(Assign(Assign(EmptyObject, Obj(g)), Obj([cwd |-> processCwd])), cmd)
resolveOpts(g, cmd) == Assign(Assign(EmptyObject, Obj(g)), cmd)

\* Line 166-168.
wrapString(in) == IF TypeOf(in) = "string" THEN Arr(<<Obj([command |-> in])>>) ELSE in

\* Line 171.
isValid(c) == Truthy(c) /\ TypeOf(c) = "object"

\* Line 172-179, for a valid c: the array of command objects.
normalize(c) ==
  IF c.t # "array" THEN <<c>>
  ELSE [j \in 1..Len(c.a) |->
          IF TypeOf(c.a[j]) = "object" THEN c.a[j] ELSE Obj([command |-> c.a[j]])]

\* Line 182.
isParallelAlways(g) == TRUE
isParallelNever(g) == FALSE
isParallel(g) == g.mode = PARALLEL

\* Line 212-214.
onInvalidResolve == Resolved(<<>>)
onInvalid == Rejected(Str(<<"I", "n", "v", "a", "l", "i", "d">>))

\* Array.prototype.map (line 183) visits the indices 1..n ascending.
mapOrderReversed(n) == [j \in 1..n |-> n + 1 - j]
mapOrder(n) == [j \in 1..n |-> j]

\* Line 197.
pushUnlessError(res, v) == IF v.t = "error" THEN res ELSE Append(res, v)
push(res, v) == Append(res, v)

\* Promise.all stores the value of promise i at index i of its values.
allStoreInOrder(vals, i, v) ==
  LET free == {j \in 1..Len(vals) : vals[j] = Undefined}
      first == CHOOSE j \in free : \A k \in free : j <= k
  IN  [vals EXCEPT ![first] = v]
allStore(vals, i, v) == [vals EXCEPT ![i] = v]


\* ---------------------------------------------------------- inputs
LS == <<"l", "s">>
ECHO == <<"e", " ", Quote, "a", " ", "b", Quote>>
BLANK == <<" ">>
EMPTY == <<>>

\* The strings and descriptors a caller passes, alone or in an array.
Elements ==
  { Str(LS),
    Str(BLANK),
    Obj([command |-> Str(ECHO), cwd |-> "/var", shell |-> TRUE, mode |-> PARALLEL,
         verbose |-> FALSE, logger |-> "logger1",
         onData |-> "onData1", onDone |-> "onDone1"]) }

RECURSIVE ArraysOf(_, _)
ArraysOf(S, n) ==
  IF n = 0 THEN {<<>>}
  ELSE LET shorter == ArraysOf(S, n - 1)
       IN  shorter \cup {Append(a, e) : a \in {b \in shorter : Len(b) = n - 1}, e \in S}

Inputs ==
  Elements \cup {Arr(a) : a \in ArraysOf(Elements, MaxCmds)}
           \cup {Str(EMPTY), Num(6), Null, Undefined, Bool(TRUE)}

GlobalOptions ==
  { Undefined,
    Obj([mode |-> "series", cwd |-> "/tmp", verbose |-> TRUE, logger |-> "loggerG",
         onData |-> "onDataG", onError |-> "onErrorG", onDone |-> "onDoneG"]),
    Obj([mode |-> PARALLEL, cwd |-> "/tmp"]) }

ExitCodes == {0, 2}
Errors == {ErrorObj(-2)}
\* The codes a close event carries: an exit code, or the number of the error.
CloseCodes == ExitCodes \cup {e.n : e \in Errors}
\* The chunks of one stream are told apart by their content: the j-th chunk a
\* stream emits holds the digit j (the code never looks into a chunk).
Digit(j) == CASE j = 1 -> "1" [] j = 2 -> "2" [] j = 3 -> "3" [] OTHER -> "9"
Buffers == {Buffer(<<Digit(j)>>) : j \in 1..MaxChunks}
NextChunk(stream) == Buffer(<<Digit(Len(stream) + 1)>>)

\* ------------------------------------------------------------- Init
NotCalled == [st |-> "none", val |-> Undefined]

Init ==
  /\ input = Undefined
  /\ options = Undefined
  /\ batch = NotCalled
  /\ globalOpts = EmptyObject
  /\ commands = <<>>
  /\ resolvedOpts = <<>>
  /\ promise = <<>>
  /\ child = <<>>
  /\ results = <<>>
  /\ pos = 0
  /\ values = <<>>
  /\ chunks = 0
  /\ calls = <<>>
  /\ timeline = <<>>
  /\ processCwd = ProcessCwd

\* ---------------------------------------------------------- actions
\* What one call run(resolveOpts(g, cs[k])) adds to the dispatched commands.
dispatch(cs, g, k, d) ==
  LET o == resolveOpts(g, cs[k])
      r == run(o)
  IN  [ro |-> Put(d.ro, k, o),
       pr |-> Put(d.pr, k, runPromise(r)),
       ch |-> IF r.threw THEN d.ch ELSE Put(d.ch, k, r.handle),
       cl |-> Put(d.cl, k, r.calls),
       tl |-> IF r.threw THEN Append(d.tl, Settled(k)) ELSE Append(d.tl, Spawned(k))]

\* Line 183-186: commands.map dispatches every command, in map order.
RECURSIVE mapRun(_, _, _, _)
mapRun(cs, g, order, d) ==
  IF order = <<>> THEN d
  ELSE mapRun(cs, g, Tail(order), dispatch(cs, g, Head(order), d))

\* Promise.all(promises).then(resolve, reject) (line 187) once the promises pr
\* hold values vals: rejected with the first rejection, resolved when none is
\* left pending; b is the batch promise, which settles once
\* (allFirst resolves with the first promise that resolves).
allFirst(pr, vals, b) ==
  IF b.st # "pending" THEN b
  ELSE IF \E j \in DOMAIN pr : pr[j].st = "rejected"
       THEN Rejected(pr[CHOOSE j \in DOMAIN pr : pr[j].st = "rejected"].val)
       ELSE IF \E j \in DOMAIN pr : pr[j].st = "resolved"
            THEN Resolved(vals) ELSE b
all(pr, vals, b) ==
  IF b.st # "pending" THEN b
  ELSE IF \E j \in DOMAIN pr : pr[j].st = "rejected"
       THEN Rejected(pr[CHOOSE j \in DOMAIN pr : pr[j].st = "rejected"].val)
       ELSE IF \A j \in DOMAIN pr : pr[j].st = "resolved"
            THEN Resolved(vals) ELSE b

\* The generator of line 190-209 resumed at loop index k with results res,
\* driven by async (line 107-130): it dispatches command k and yields, or leaves
\* the loop and resolves; a rejected yield is thrown into it and caught at
\* line 206.  d holds the dispatched commands so far, b the batch promise.
generator(cs, g, k, res, d, b) ==
  IF k > Len(cs)
  THEN /\ pos' = 0
       /\ results' = res
       /\ batch' = IF b.st # "pending" THEN b
                   ELSE IF Truthy(Arr(res)) THEN Resolved(res)
                        ELSE Rejected(Str(<<"F", "a", "l", "s", "y">>))
       /\ resolvedOpts' = d.ro
       /\ promise' = d.pr
       /\ child' = d.ch
       /\ calls' = d.cl
       /\ timeline' = d.tl
  ELSE LET n == dispatch(cs, g, k, d)
       IN  /\ pos' = k
           /\ results' = res
           /\ batch' = IF b.st = "pending" /\ n.pr[k].st = "rejected"
                       THEN Rejected(n.pr[k].val) ELSE b
           /\ resolvedOpts' = n.ro
           /\ promise' = n.pr
           /\ child' = n.ch
           /\ calls' = n.cl
           /\ timeline' = n.tl

\* Line 151-216: one call of command.run.
runMultiple(in, opts) ==
  /\ batch.st = "none"
  /\ input' = in
  /\ options' = opts
  /\ chunks' = chunks
  /\ processCwd' = processCwd
  /\ LET g == mergeGlobal(opts)
         c == wrapString(in)
         none == [ro |-> <<>>, pr |-> <<>>, ch |-> <<>>, cl |-> <<>>, tl |-> <<>>]
     IN  /\ globalOpts' = g
         /\ IF ~isValid(c)
            THEN /\ batch' = onInvalid
                 /\ commands' = <<>>
                 /\ UNCHANGED <<resolvedOpts, promise, child, results, pos, values,
                                calls, timeline>>
            ELSE LET cs == normalize(c)
                 IN  /\ commands' = cs
                     /\ IF isParallel(g)
                        THEN LET d == mapRun(cs, g, mapOrder(Len(cs)), none)
                                 vals == [j \in 1..Len(cs) |-> Undefined]
                             IN  /\ values' = vals
                                 /\ batch' = all(d.pr, vals, Pending)
                                 /\ resolvedOpts' = d.ro
                                 /\ promise' = d.pr
                                 /\ child' = d.ch
                                 /\ calls' = d.cl
                                 /\ timeline' = d.tl
                                 /\ UNCHANGED <<results, pos>>
                        ELSE /\ generator(cs, g, 1, <<>>, none, Pending)
                             /\ UNCHANGED values

\* The reactions to the outcome s (resolved or rejected) that a listener of
\* command i passes to its promise (a settled promise ignores it); d holds the
\* state the listener leaves.
settle(i, s, d) ==
  IF promise[i].st # "pending"
  THEN /\ child' = d.ch
       /\ calls' = d.cl
       /\ UNCHANGED <<batch, resolvedOpts, promise, results, pos, values, timeline>>
  ELSE LET pr == [promise EXCEPT ![i] = s]
           d1 == [d EXCEPT !.pr = pr, !.tl = Append(d.tl, Settled(i))]
       IN  IF isParallel(globalOpts)
           THEN LET vals == IF s.st = "resolved" THEN allStore(values, i, s.val) ELSE values
                IN  /\ values' = vals
                    /\ batch' = all(pr, vals, batch)
                    /\ promise' = pr
                    /\ child' = d1.ch
                    /\ calls' = d1.cl
                    /\ timeline' = d1.tl
                    /\ UNCHANGED <<resolvedOpts, results, pos>>
           ELSE /\ UNCHANGED values
                /\ IF s.st = "resolved"
                   THEN generator(commands, globalOpts, pos + 1, push(results, s.val), d1, batch)
                   ELSE /\ batch' = IF batch.st = "pending" THEN Rejected(s.val) ELSE batch
                        /\ promise' = pr
                        /\ child' = d1.ch
                        /\ calls' = d1.cl
                        /\ timeline' = d1.tl
                        /\ UNCHANGED <<resolvedOpts, results, pos>>

here == [ro |-> resolvedOpts, pr |-> promise, ch |-> child, cl |-> calls, tl |-> timeline]

\* data.toString() of a chunk.
toString(data) == Str(data.b)

\* Line 60-69 (key = "onData") and line 72-81 (key = "onError")
\* (onChunkCrossed hands the chunk to the callback of the other stream).
onChunkCrossed(o, key, data) ==
  LET other == IF key = "onData" THEN "onError" ELSE "onData"
  IN  IF ~Truthy(data) THEN <<>>
      ELSE (IF verbose(o) THEN <<Call("logger", o.logger, toString(data), FALSE)>> ELSE <<>>)
           \o (IF isFunction(o, other)
                THEN <<Call(other, o[other], toString(data), FALSE)>> ELSE <<>>)
onChunk(o, key, data) ==
  IF ~Truthy(data) THEN <<>>
  ELSE (IF verbose(o) THEN <<Call("logger", o.logger, toString(data), FALSE)>> ELSE <<>>)
       \o (IF isFunction(o, key) THEN <<Call(key, o[key], toString(data), FALSE)>> ELSE <<>>)

\* Line 60-69: the process wrote a chunk to its stdout.
stdoutData(i, data) ==
  /\ i \in DOMAIN child /\ child[i].live /\ chunks < MaxChunks
  /\ data = NextChunk(child[i].stdout)
  /\ chunks' = chunks + 1
  /\ child' = [child EXCEPT ![i].stdout = Append(@, data)]
  /\ calls' = [calls EXCEPT ![i] = @ \o onChunk(resolvedOpts[i], "onData", data)]
  /\ UNCHANGED <<input, options, batch, globalOpts, commands, resolvedOpts, promise,
                 results, pos, values, timeline, processCwd>>

\* Line 72-81: the process wrote a chunk to its stderr.
stderrData(i, data) ==
  /\ i \in DOMAIN child /\ child[i].live /\ chunks < MaxChunks
  /\ data = NextChunk(child[i].stderr)
  /\ chunks' = chunks + 1
  /\ child' = [child EXCEPT ![i].stderr = Append(@, data)]
  /\ calls' = [calls EXCEPT ![i] = @ \o onChunk(resolvedOpts[i], "onError", data)]
  /\ UNCHANGED <<input, options, batch, globalOpts, commands, resolvedOpts, promise,
                 results, pos, values, timeline, processCwd>>

\* Line 84-90: the process has closed with an exit code. A handle that has
\* reported an error (a failed spawn) closes with the error's number as its
\* code, as the handles of child_process do.
close(i, code) ==
  /\ i \in DOMAIN child /\ child[i].live
  /\ IF child[i].errored THEN code = child[i].emitted[1].n ELSE code \in ExitCodes
  /\ LET o == resolvedOpts[i]
         ch == [child EXCEPT ![i].live = FALSE,
                             ![i].emitted = Append(@, Num(code))]
         cl == [calls EXCEPT ![i] = @ \o (IF isFunction(o, "onDone")
                  THEN <<Call("onDone", o.onDone, Num(code), FALSE)>> ELSE <<>>)]
     IN  settle(i, closeSettle(code), [here EXCEPT !.ch = ch, !.cl = cl])
  /\ UNCHANGED <<input, options, globalOpts, commands, chunks, processCwd>>

\* Line 93-98: the handle reports an error.
error(i, e) ==
  /\ i \in DOMAIN child /\ child[i].live /\ ~child[i].errored
  /\ LET o == resolvedOpts[i]
         ch == [child EXCEPT ![i].errored = TRUE,
                             ![i].emitted = Append(@, e)]
         cl == [calls EXCEPT ![i] = @ \o (IF isFunction(o, "onDone")
                  THEN <<Call("onDone", o.onDone, e, TRUE)>> ELSE <<>>)]
     IN  settle(i, errorSettle(e), [here EXCEPT !.ch = ch, !.cl = cl])
  /\ UNCHANGED <<input, options, globalOpts, commands, chunks, processCwd>>

Next ==
  \/ \E in \in Inputs, opts \in GlobalOptions : runMultiple(in, opts)
  \/ \E i \in 1..MaxCmds, data \in Buffers : stdoutData(i, data)
  \/ \E i \in 1..MaxCmds, data \in Buffers : stderrData(i, data)
  \/ \E i \in 1..MaxCmds, code \in CloseCodes : close(i, code)
  \/ \E i \in 1..MaxCmds, e \in Errors : error(i, e)

Spec == Init /\ [][Next]_vars

\* =========================================================== claims
\* Vocabulary: the call as the caller made it.
Called == batch.st # "none"
ValidShape == input.t \in {"string", "object", "array"}
InputCount == IF input.t = "array" THEN Len(input.a) ELSE 1
InputCommand(i) == IF input.t = "array" THEN input.a[i] ELSE input
ParallelRequested ==
  options.t = "object" /\ Has(options.o, "mode") /\ options.o.mode = PARALLEL
SequentialRequested == ~ParallelRequested

\* The command line of an input element, and whether it yields a token.
CommandLine(e) == IF e.t = "string" THEN e.s ELSE e.o.command.s
Tokenizable(e) == \E p \in 1..Len(CommandLine(e)) : MatchAt(CommandLine(e), p) # 0
StructurallyValid ==
  Called /\ ValidShape /\ \A i \in 1..InputCount : Tokenizable(InputCommand(i))

\* The process of command i has reported close or error; its first report.
Reported(i) == i \in DOMAIN child /\ child[i].emitted # <<>>
Outcome(i) == child[i].emitted[1]
AllReported == \A i \in DOMAIN child : Reported(i)

\* The position in timeline at which command i was dispatched.
DispatchedAt(i) ==
  CHOOSE p \in 1..Len(timeline) :
    timeline[p].cmd = i /\ \A q \in 1..(p - 1) : timeline[q].cmd # i
SettledAt(i) == CHOOSE p \in 1..Len(timeline) : timeline[p] = Settled(i)
HasSettled(i) == \E p \in 1..Len(timeline) : timeline[p] = Settled(i)

\* The calls in cl made for command i of the callbacks named in ops.
CallsOf(cl, i, ops) == {p \in 1..Len(cl[i]) : cl[i][p].op \in ops}

\* C1: for a structurally valid input, in both modes, once every spawned
\* process has reported close or error the batch is resolved with as many
\* entries as there are input commands, whatever the outcomes.
C1_ResultLength ==
  (AllReported /\ StructurallyValid) =>
    (batch.st = "resolved" /\ Len(batch.val) = InputCount)

C1_Witness ==
  /\ StructurallyValid /\ AllReported
  /\ input.t = "array" /\ Len(input.a) = MaxCmds
  /\ batch.st = "resolved"
  /\ \E i \in DOMAIN child : Outcome(i).t = "error"
  /\ \E i \in DOMAIN child : Outcome(i) = Num(2)

\* C2: entry i of the resolved collection is the outcome of input command i,
\* whatever the order in which the processes completed.
C2_ResultPositional ==
  batch.st = "resolved" =>
    \A i \in 1..Len(commands) :
      Reported(i) /\ i <= Len(batch.val) /\ batch.val[i] = Outcome(i)

\* A parallel batch resolved after command 2 completed before command 1, with
\* different outcomes.
C2_Witness ==
  /\ ParallelRequested /\ batch.st = "resolved" /\ Len(commands) >= 2
  /\ SettledAt(2) < SettledAt(1)
  /\ Outcome(1) # Outcome(2)

\* C3: in sequential mode command i+1 is not dispatched before the promise of
\* command i has resolved, whatever outcome command i had.
C3_SequentialGate ==
  (Called /\ SequentialRequested) =>
    \A i \in DOMAIN resolvedOpts :
      i > 1 => /\ promise[i - 1].st = "resolved"
               /\ HasSettled(i - 1)
               /\ SettledAt(i - 1) < DispatchedAt(i)

C3_Witness ==
  /\ SequentialRequested /\ MaxCmds \in DOMAIN resolvedOpts
  /\ Outcome(1).t = "error"
  /\ child[1].live

\* C4 (as claimed): in sequential mode no onData/onError call is made for a
\* command once one has been made for a later command of the batch.
C4_CallbackOrder ==
  [][SequentialRequested =>
       \A i \in DOMAIN calls, j \in DOMAIN calls :
         (i < j /\ CallsOf(calls, j, {"onData", "onError"}) # {}) =>
           CallsOf(calls', i, {"onData", "onError"})
             = CallsOf(calls, i, {"onData", "onError"})]_vars

\* C5: in parallel mode every command of the batch has been dispatched before
\* any completion or output event is handled: from the call on, run has been
\* called for every command and every tokenizable one has its process.
C5_ParallelDispatchAll ==
  (Called /\ ParallelRequested /\ ValidShape) =>
    /\ DOMAIN resolvedOpts = 1..InputCount
    /\ \A i \in 1..InputCount : i \in DOMAIN child \/ ~Tokenizable(InputCommand(i))

\* Command 2 has delivered output and completed while command 1 still runs.
C5_Witness ==
  /\ ParallelRequested /\ 2 \in DOMAIN child /\ 1 \in DOMAIN child
  /\ child[1].live /\ ~Reported(1)
  /\ ~child[2].live /\ CallsOf(calls, 2, {"onData"}) # {}

\* C6: in both modes the commands are dispatched in input order.
C6_DispatchOrder ==
  \A j \in DOMAIN resolvedOpts :
    \A i \in 1..(j - 1) :
      i \in DOMAIN resolvedOpts /\ DispatchedAt(i) < DispatchedAt(j)

C6_Witness ==
  /\ ParallelRequested /\ Len(commands) = MaxCmds
  /\ DOMAIN child = 1..MaxCmds

\* C7: a commands argument that is neither a string nor an object or array
\* rejects the promise, and nothing is dispatched or spawned.
C7_InvalidInput ==
  (Called /\ ~ValidShape) =>
    (batch.st = "rejected" /\ DOMAIN resolvedOpts = {} /\ DOMAIN child = {}
       /\ timeline = <<>>)

C7_Witness ==
  Called /\ input = Null /\ ParallelRequested /\ batch.st = "rejected"

\* C8: for tokenizable commands a nonzero exit code or an error event never
\* rejects the batch, and in the resolved collection every slot carries its
\* own command's outcome.
C8_OutcomeIsData ==
  /\ batch.st = "rejected" => ~StructurallyValid
  /\ \A i \in DOMAIN child :
       /\ promise[i].st # "rejected"
       /\ Reported(i) => promise[i] = Resolved(Outcome(i))
  /\ batch.st = "resolved" =>
       \A i \in 1..InputCount : batch.val[i] = Outcome(i)

C8_Witness ==
  /\ StructurallyValid /\ batch.st = "resolved" /\ InputCount >= 2
  /\ \E i, j \in 1..InputCount :
       /\ batch.val[i] = Num(2) /\ batch.val[j].t = "error"

\* C9 (as claimed): onDone, when supplied, is called exactly once for a command
\* whose process has reported, and never more than once.
C9_DoneOnce ==
  \A i \in DOMAIN child :
    isFunction(resolvedOpts[i], "onDone") =>
      Cardinality(CallsOf(calls, i, {"onDone"})) = (IF Reported(i) THEN 1 ELSE 0)

\* C10: the options run receives for a command are, field by field, the
\* command's own value, else the caller's global value, else the default.
OwnFields(i) ==
  IF InputCommand(i).t = "object" THEN InputCommand(i).o ELSE [command |-> InputCommand(i)]
GlobalFields == IF options.t = "object" THEN options.o ELSE EmptyObject
DefaultField(k) ==
  CASE k = "cwd" -> ProcessCwd
    [] k = "verbose" -> FALSE
    [] k = "mode" -> "sequential"
    [] k = "logger" -> ConsoleLog

C10_OptionOverlay ==
  \A i \in DOMAIN resolvedOpts :
    LET o == resolvedOpts[i]
        own == OwnFields(i)
        global == GlobalFields
    IN  /\ DOMAIN o = DOMAIN own \cup DOMAIN global \cup {"cwd", "verbose", "mode", "logger"}
        /\ \A k \in DOMAIN o :
             o[k] = IF k \in DOMAIN own THEN own[k]
                    ELSE IF k \in DOMAIN global THEN global[k]
                    ELSE DefaultField(k)

\* Global cwd /tmp, one command with its own cwd /var and a sibling without.
C10_Witness ==
  /\ Has(GlobalFields, "cwd") /\ GlobalFields.cwd = "/tmp"
  /\ \E i, j \in DOMAIN resolvedOpts :
       /\ Has(OwnFields(i), "cwd") /\ resolvedOpts[i].cwd = "/var"
       /\ ~Has(OwnFields(j), "cwd") /\ resolvedOpts[j].cwd = "/tmp"

\* ------------------------------------------------------- C11
\* The hypothesis of C11: every spawned process eventually emits a close or an
\* error event. Nothing is assumed about output chunks or about a close that
\* follows an error. Both events stay possible for a process that has emitted
\* neither, so this is weak fairness of its first report.
EveryProcessReports ==
  \A i \in 1..MaxCmds : (i \in DOMAIN child) ~> Reported(i)

LiveSpec == Spec /\ EveryProcessReports

BatchSettled == batch.st \in {"resolved", "rejected"}
AllDispatched == DOMAIN resolvedOpts = 1..InputCount

\* C11: when every spawned process eventually reports, the promise of a
\* structurally valid batch is eventually settled, in both modes, and in
\* sequential mode every command of the batch is eventually dispatched.
C11_EventuallySettled ==
  /\ StructurallyValid ~> BatchSettled
  /\ (StructurallyValid /\ SequentialRequested) ~> AllDispatched

\* A sequential batch of MaxCmds commands has settled although the process of
\* its first command reported an error only and is still running.
C11_Witness ==
  /\ StructurallyValid /\ SequentialRequested /\ InputCount = MaxCmds
  /\ BatchSettled /\ AllDispatched
  /\ child[1].live /\ Outcome(1).t = "error"

\* ------------------------------------------------------- C12
\* The caller's global options carry no mode field at all.
NoGlobalMode == options.t # "object" \/ ~Has(options.o, "mode")

\* C12: whether a batch runs in parallel depends on the mode of the global
\* options alone. For a batch of two or more tokenizable commands none of
\* whose processes has reported yet, all commands have been dispatched exactly
\* when the global mode is parallel (otherwise only the first has), whatever
\* mode fields the descriptors carry; without a global mode it is sequential.
C12_GlobalModeOnly ==
  (InputCount >= 2 /\ (\A i \in DOMAIN child : ~Reported(i)) /\ StructurallyValid) =>
    /\ AllDispatched <=> ParallelRequested
    /\ ~ParallelRequested => DOMAIN resolvedOpts = {1}
    /\ NoGlobalMode => DOMAIN resolvedOpts = {1}

\* Every descriptor asks for parallel, the global options carry no mode, and
\* only the first command has been dispatched.
C12_Witness ==
  /\ StructurallyValid /\ InputCount = MaxCmds /\ NoGlobalMode
  /\ \A i \in 1..InputCount :
       InputCommand(i).t = "object" /\ InputCommand(i).o.mode = PARALLEL
  /\ DOMAIN resolvedOpts = {1} /\ ~Reported(1)

\* ------------------------------------------------------- C13
\* Command strings over a whitespace, the double quote, the backslash and an
\* ordinary character, of length 1..MaxLen.
MaxLen == 4
Chars == {" ", Quote, Backslash, "a"}
CommandStrings == ArraysOf(Chars, MaxLen) \ {<<>>}

\* run is applied to one command string, given as the whole input.
TokInit ==
  /\ input \in {Str(s) : s \in CommandStrings}
  /\ options = Undefined
  /\ batch = NotCalled
  /\ globalOpts = EmptyObject
  /\ commands = <<>>
  /\ resolvedOpts = <<>>
  /\ promise = <<>>
  /\ child = <<>>
  /\ results = <<>>
  /\ pos = 0
  /\ values = <<>>
  /\ chunks = 0
  /\ calls = <<>>
  /\ timeline = <<>>
  /\ processCwd = ProcessCwd

TokNext == runMultiple(input, Undefined)

TokSpec == TokInit /\ [][TokNext]_vars

\* The tokens as C13 describes them, read left to right from p. A quote at j
\* inside a span opened at p is escaped when a backslash of the span precedes
\* it; the span closes at its first quote that is not escaped.
Escaped(s, p, j) == j - 1 > p /\ s[j - 1] = Backslash
Closers(s, p) == {j \in (p + 1)..Len(s) : s[j] = Quote /\ ~Escaped(s, p, j)}
Closer(s, p) == CHOOSE j \in Closers(s, p) : \A k \in Closers(s, p) : j <= k

RECURSIVE SpansAndRuns(_, _)
SpansAndRuns(s, p) ==
  IF p > Len(s) THEN <<>>
  ELSE IF IsSpace(s[p]) THEN SpansAndRuns(s, p + 1)
  ELSE IF s[p] = Quote
       THEN IF Closers(s, p) = {}
            THEN SpansAndRuns(s, p + 1)
            ELSE <<SubSeq(s, p + 1, Closer(s, p) - 1)>> \o SpansAndRuns(s, Closer(s, p) + 1)
       ELSE LET e == CHOOSE e \in (p + 1)..(Len(s) + 1) :
                       /\ \A k \in p..(e - 1) : s[k] # Quote /\ ~IsSpace(s[k])
                       /\ e = Len(s) + 1 \/ s[e] = Quote \/ IsSpace(s[e])
            IN  <<SubSeq(s, p, e - 1)>> \o SpansAndRuns(s, e)

\* C13 (as claimed): for a command string that yields a token, the executable
\* name followed by the arguments passed to spawn is the sequence of the
\* string's double-quoted spans, each without its two enclosing quotes, and
\* maximal runs of non-whitespace non-quote characters, each unchanged.
C13_Tokenization ==
  (Called /\ 1 \in DOMAIN child) =>
    <<child[1].runCMD>> \o child[1].args = SpansAndRuns(input.s, 1)

\* ------------------------------------------------------- C14
\* C14: in parallel mode the batch promise is resolved only once every command
\* of the batch has reported and its promise has resolved, and it is resolved
\* as soon as the last of them has: while a dispatched command is unresolved
\* the batch is not resolved.
C14_ParallelResolvesLast ==
  (Called /\ ParallelRequested /\ ValidShape) =>
    (batch.st = "resolved" <=>
       \A i \in 1..InputCount :
         /\ i \in DOMAIN promise /\ promise[i].st = "resolved"
         /\ Reported(i) /\ HasSettled(i))

\* A parallel batch is still pending: one command has resolved, another has
\* not reported yet.
C14_Witness ==
  /\ ParallelRequested /\ StructurallyValid /\ InputCount = MaxCmds
  /\ batch.st = "pending"
  /\ \E i \in DOMAIN child : promise[i].st = "resolved"
  /\ \E i \in DOMAIN child : ~Reported(i)

\* ------------------------------------------------------- C15
\* The keys C15 allows in the options passed to spawn.
SpawnKeys == {"cwd", "env", "stdio", "detached", "uid", "gid", "shell"}

\* C15: the options spawn received for a command hold exactly the fields of
\* the command's resolved options whose key is one of cwd, env, stdio,
\* detached, uid, gid and shell, each with its resolved value; command, the
\* callbacks, verbose, logger and mode are not among them.
C15_SpawnAllowList ==
  \A i \in DOMAIN child :
    LET passed == child[i].opts
        o == resolvedOpts[i]
    IN  /\ DOMAIN passed = DOMAIN o \cap SpawnKeys
        /\ \A k \in DOMAIN passed : passed[k] = o[k]
        /\ DOMAIN passed \cap {"command", "onData", "onError", "onDone",
                               "verbose", "logger", "mode"} = {}

\* A process spawned with its own cwd and shell, from resolved options that
\* also hold callbacks, a logger and a mode.
C15_Witness ==
  \E i \in DOMAIN child :
    /\ DOMAIN child[i].opts = {"cwd", "shell"}
    /\ child[i].opts.cwd = "/var" /\ child[i].opts.shell = TRUE
    /\ {"command", "onData", "onError", "onDone", "verbose", "logger", "mode"}
         \subseteq DOMAIN resolvedOpts[i]

\* ------------------------------------------------------- C16
IsOnData(c) == c.op = "onData"
IsOnError(c) == c.op = "onError"
IsNonEmpty(data) == data.b # <<>>

\* The calls that the chunks chs of one stream must have caused, when the
\* callback named key is supplied in the resolved options o: one per non-empty
\* chunk, in arrival order, with the chunk's text.
Expected(o, key, chs) ==
  IF ~Has(o, key) THEN <<>>
  ELSE LET ne == SelectSeq(chs, IsNonEmpty)
       IN  [j \in 1..Len(ne) |-> Call(key, o[key], Str(ne[j].b), FALSE)]

LastEvent(i) == child[i].emitted[Len(child[i].emitted)]
IsOnDone(c) == c.op = "onDone"

\* C17 (as claimed): once the handle of a command has emitted close with a
\* code, onDone (when supplied) has been called with that code and the command
\* is resolved with that code; once it has emitted an error, onDone has been
\* called with the error and true and the command is resolved with the error;
\* the resolved value is an error exactly when the event was an error, and the
\* call of onDone is on record whenever the command is resolved.
C17_CompletionProtocol ==
  \A i \in DOMAIN child :
    Reported(i) =>
      LET dones == SelectSeq(calls[i], IsOnDone)
      IN  /\ promise[i] = Resolved(LastEvent(i))
          /\ promise[i].val.t = "error" <=> LastEvent(i).t = "error"
          /\ isFunction(resolvedOpts[i], "onDone") =>
               /\ dones # <<>>
               /\ dones[Len(dones)] = Call("onDone", resolvedOpts[i].onDone,
                                           LastEvent(i), LastEvent(i).t = "error")

\* ------------------------------------------------------- C18
\* Dispatching command k raised a fault: run was called for it and threw
\* before it had a process, so that its promise is rejected.
Faulted(k) ==
  /\ k \in DOMAIN resolvedOpts /\ k \notin DOMAIN child
  /\ promise[k].st = "rejected"

\* C18: in sequential mode, once the dispatch of command k has raised a fault
\* the batch promise is rejected, with the fault as its reason, and no command
\* after k is dispatched, in any later state.
C18_FaultStopsSequence ==
  (Called /\ SequentialRequested) =>
    \A k \in DOMAIN resolvedOpts :
      k \notin DOMAIN child =>
        /\ Faulted(k)
        /\ batch = Rejected(promise[k].val)
        /\ \A j \in DOMAIN resolvedOpts : j <= k

\* The first of several commands faulted; the others were never dispatched.
C18_Witness ==
  /\ SequentialRequested /\ InputCount >= 2
  /\ Faulted(1) /\ batch.st = "rejected" /\ DOMAIN resolvedOpts = {1}
  /\ Tokenizable(InputCommand(2))

\* ------------------------------------------------------- C19
\* The command line of e is empty or holds whitespace only.
Blank(e) == \A j \in 1..Len(CommandLine(e)) : IsSpace(CommandLine(e)[j])

\* C19: in both modes a command whose string is empty or all whitespace gets
\* no process, a batch that holds one is never resolved, and the batch is
\* rejected from the moment that command is dispatched.
C19_BlankCommandRejects ==
  (Called /\ ValidShape) =>
    \A i \in 1..InputCount :
      Blank(InputCommand(i)) =>
        /\ i \notin DOMAIN child
        /\ batch.st # "resolved"
        /\ i \in DOMAIN resolvedOpts => batch.st = "rejected"

\* A parallel batch rejected for its blank second command while the process
\* of its first command runs.
C19_Witness ==
  /\ ParallelRequested /\ InputCount = MaxCmds
  /\ Blank(InputCommand(2)) /\ batch.st = "rejected"
  /\ 1 \in DOMAIN child /\ child[1].live

\* ------------------------------------------------------- C20
\* The directories the caller's program moves to while a batch runs.
Dirs == {"/elsewhere"}

\* process.chdir(d), called by the program between two events of a running
\* batch.
chdir(d) ==
  /\ batch.st = "pending" /\ processCwd # d
  /\ processCwd' = d
  /\ timeline' = Append(timeline, Changed)
  /\ UNCHANGED <<input, options, batch, globalOpts, commands, resolvedOpts, promise,
                 child, results, pos, values, chunks, calls>>

\* A batch called without global options, in a program that changes directory.
CwdNext ==
  \/ \E in \in Inputs : runMultiple(in, Undefined)
  \/ \E i \in 1..MaxCmds, data \in Buffers : stdoutData(i, data)
  \/ \E i \in 1..MaxCmds, data \in Buffers : stderrData(i, data)
  \/ \E i \in 1..MaxCmds, code \in CloseCodes : close(i, code)
  \/ \E i \in 1..MaxCmds, e \in Errors : error(i, e)
  \/ \E d \in Dirs : chdir(d)

CwdSpec == Init /\ [][CwdNext]_vars

\* The program changed directory before command i was dispatched.
ChangedBefore(i) ==
  \E p \in 1..Len(timeline) : timeline[p] = Changed /\ p < DispatchedAt(i)

\* C20: a command without a cwd of its own, in a batch without a global cwd,
\* is spawned in the directory that was current when run was called, also
\* when the program has changed directory since.
C20_CwdSnapshot ==
  \A i \in DOMAIN child :
    (~Has(OwnFields(i), "cwd") /\ ~Has(GlobalFields, "cwd")) =>
      /\ Has(child[i].opts, "cwd")
      /\ child[i].opts.cwd = ProcessCwd

\* The second command of a sequential batch was spawned after the program had
\* left the directory of the call.
C20_Witness ==
  /\ 2 \in DOMAIN child /\ ~Has(OwnFields(2), "cwd") /\ ~Has(GlobalFields, "cwd")
  /\ ChangedBefore(2) /\ processCwd # ProcessCwd
  /\ child[2].opts.cwd = ProcessCwd

\* ------------------------------------------------------- C21
\* The processes of the batch that are spawned and not yet closed.
Live == {i \in DOMAIN child : child[i].live}

\* C21 (as claimed): in a sequential batch at most one process is live in any
\* state, whatever close and error events the handles emit.
C21_OneLiveProcess ==
  (Called /\ SequentialRequested) => Cardinality(Live) <= 1

\* ------------------------------------------------------- C22
Callbacks == {"onData", "onError", "onDone"}

\* C22 (as claimed): once the promise run returned has settled, no process of
\* the batch is live, and no step calls onData, onError or onDone for any of
\* its commands any more.
C22_QuietAfterSettled ==
  [][BatchSettled =>
       /\ Live = {}
       /\ \A i \in DOMAIN calls' :
            /\ i \in DOMAIN calls
            /\ CallsOf(calls', i, Callbacks) = CallsOf(calls, i, Callbacks)]_vars

====
